---- MODULE Spec2Model ----
(***************************************************************************)
(* Model of the BlockPlain RAG ingestion pipeline:                         *)
(*   - BlockchainDataStream (app/connectors/stream.py): the snapshot load, *)
(*     the live-subscription loop with its reconnect delay, stop(), the    *)
(*     two normalizers and the queue consumer;                             *)
(*   - EmbeddingEngine.embed_text and embed_batch (pipeline/embeddings.py);*)
(*   - the row processing, the id-keyed vector index and query_handler of  *)
(*     BlockchainRAGPipeline.build_pipeline (pipeline/rag.py);             *)
(*   - query_blockchain and get_llm_response (api/routes.py).              *)
(* Spec and FairSpec are the running stream object with its consumer;      *)
(* FnSpec calls the normalizers, embed_batch, the pipeline and the query   *)
(* functions directly, one input at a time.                                *)
(* The coroutines of the stream object run on one cooperative event loop,  *)
(* so one action is the code between two suspension points (an await that  *)
(* really waits: a fetch, the next update, the sleep, connector.close()).  *)
(* queue.put on the unbounded queue never suspends.                        *)
(***************************************************************************)
EXTENDS Integers, Sequences, FiniteSets, TLC

VARIABLES
    loadpc,       \* position of start(): "get_blocks", "get_txs", "done"
    startResult,  \* "running", "returned" or "raised": how start() ended
    loadLog,      \* "none", "info" (line 47) or "error" (line 49)
    streampc,     \* the _stream_updates task: "NotCreated", "Created",
                  \* "Streaming", "Reconnecting", "Stopped"
    timer,        \* time left of asyncio.sleep(5)
    subs,         \* number of calls of connector.stream_updates()
    failures,     \* history: number of subscriptions in a row that raised,
                  \* up to the current one
    yielded,      \* history: the current subscription has yielded an update
    stopEvent,    \* self._stop_event
    stoppc,       \* position of stop(): "idle", "closing", "done"
    connClosed,   \* the connector has been closed
    queue,        \* self.queue, the documents waiting
    qtag,         \* history: for each queued document, who enqueued it and when
    index,        \* the vector index, rows in order of insertion
    enqLog,       \* history: every document put on the queue, with its source
    applied,      \* history: every document handed to context.add_data
    appliedTag,   \* history: the tags of the documents in applied, and whether
                  \* the embedding model raised on the document
    emitted,      \* history: every update a subscription yielded
    snapBlocks,   \* history: what get_blocks returned (<<>> before)
    feedPos,      \* how much of the upstream feed has passed
    encodeBroken, \* the embedding model has raised on encode
    call          \* the last direct call of one of the program's functions:
                  \* its name, its argument and what it returned or raised

loadVars == <<loadpc, startResult, loadLog, snapBlocks>>
streamVars == <<streampc, timer, subs, failures, yielded>>
stopVars == <<stopEvent, stoppc, connClosed>>
queueVars == <<queue, qtag, enqLog>>
indexVars == <<index, applied, appliedTag, encodeBroken>>

vars == <<loadVars, streamVars, stopVars, queueVars, indexVars, emitted, feedPos, call>>

(***************************************************************************)
(* Bounds of the model and constants of the program.                       *)
(***************************************************************************)
MaxSubs == 3
Dim == 2
MaxCalls == 2
MaxBatch == 3
MaxRows == 3
MaxK == 4
ReconnectDelay == 5
DefaultTopK == 5

(***************************************************************************)
(* Python values: a JSON value is tagged with its type.                    *)
(***************************************************************************)
I(n) == [t |-> "int", v |-> n]
S(s) == [t |-> "str", v |-> s]
L(q) == [t |-> "list", v |-> q]
PyNone == [t |-> "none", v |-> 0]

\* dict.get(key, default)
Get(d, k, default) == IF k \in DOMAIN d THEN d[k] ELSE default

\* d[k] = v for each key of upd (the later assignment wins)
SetKeys(d, upd) == upd @@ d

RECURSIVE JoinRepr(_)
\* str(x) and repr(x), as an f-string renders a value
PyStr(x) ==
    CASE x.t = "int" -> ToString(x.v)
      [] x.t = "str" -> x.v
      [] x.t = "none" -> "None"
      [] x.t = "list" -> "[" \o JoinRepr(x.v) \o "]"
PyRepr(x) == IF x.t = "str" THEN "'" \o x.v \o "'" ELSE PyStr(x)
JoinRepr(q) ==
    IF q = <<>> THEN ""
    ELSE IF Len(q) = 1 THEN PyRepr(q[1])
    ELSE PyRepr(q[1]) \o ", " \o JoinRepr(Tail(q))

\* iter(x): a list yields its items, a string its characters; anything else
\* raises TypeError
Iterable(x) == x.t \in {"list", "str"}
Items(x) ==
    IF x.t = "list" THEN x.v
    ELSE [i \in 1..Len(x.v) |-> S(SubSeq(x.v, i, i))]

(***************************************************************************)
(* The Document Normalizer: _process_block and _process_transaction.       *)
(* Each returns [ok, doc]: ok = FALSE when the code raises before the put. *)
(***************************************************************************)
RECURSIVE TxLines(_, _)
\* the loop of lines 77-78: "  {i+1}. {tx}\n" for the items from position i
TxLines(items, i) ==
    IF i > Len(items) THEN ""
    ELSE "  " \o ToString(i) \o ". " \o PyStr(items[i]) \o "\n" \o TxLines(items, i + 1)

block_text(block) ==
    "Block at [" \o PyStr(Get(block, "X", S("?"))) \o ", "
                 \o PyStr(Get(block, "Y", S("?"))) \o "]\n"
    \o "Hash: " \o PyStr(Get(block, "Hash", S("?"))) \o "\n"
    \o "Previous Hashes: X=" \o PyStr(Get(block, "PrevHashX", S("?")))
                 \o ", Y=" \o PyStr(Get(block, "PrevHashY", S("?"))) \o "\n"
    \o "Context: " \o PyStr(Get(block, "Context", S("?"))) \o "\n"
    \o "Timestamp: " \o PyStr(Get(block, "Timestamp", S("?"))) \o "\n"
    \o "Transactions:\n"
    \o TxLines(Items(Get(block, "Data", L(<<>>))), 1)

block_id(block) ==
    "block_" \o PyStr(Get(block, "X", I(0))) \o "_" \o PyStr(Get(block, "Y", I(0)))

process_block(block) ==
    IF ~Iterable(Get(block, "Data", L(<<>>)))
    THEN [ok |-> FALSE, doc |-> SetKeys(block, [_document_type |-> S("block")])]
    ELSE [ok |-> TRUE,
          doc |-> SetKeys(block, [_document_type |-> S("block"),
                                  _text |-> S(block_text(block)),
                                  _id |-> S(block_id(block))])]

tx_text(tx) ==
    "Transaction " \o PyStr(Get(tx, "ID", S("?"))) \o "\n"
    \o "Data: " \o PyStr(Get(tx, "Data", S("?"))) \o "\n"

tx_id(tx) == "tx_" \o PyStr(Get(tx, "ID", S("")))

process_transaction(tx) ==
    [ok |-> TRUE,
     doc |-> SetKeys(tx, [_document_type |-> S("transaction"),
                          _text |-> S(tx_text(tx)),
                          _id |-> S(tx_id(tx))])]

(***************************************************************************)
(* The upstream source: the records it can return or emit.                 *)
(***************************************************************************)
B1 == [X |-> I(1), Y |-> I(0), Hash |-> S("h1"), PrevHashX |-> S("g"),
       PrevHashY |-> S("g"), Context |-> S("c"), Timestamp |-> S("t1"),
       Data |-> L(<<S("a")>>)]
B2 == [X |-> I(1), Y |-> I(1), Hash |-> S("h2"), PrevHashX |-> S("h1"),
       PrevHashY |-> S("g"), Context |-> S("c"), Timestamp |-> S("t2"),
       Data |-> L(<<>>)]
B3 == [X |-> I(2), Y |-> I(0), Hash |-> S("h3"), PrevHashX |-> S("g"),
       PrevHashY |-> S("h1"), Context |-> S("c"), Timestamp |-> S("t3"),
       Data |-> L(<<S("a"), S("b")>>)]
\* the block at B1's position again, with other content
B1u == [X |-> I(1), Y |-> I(0), Hash |-> S("h1u"), PrevHashX |-> S("g"),
        PrevHashY |-> S("g"), Context |-> S("c"), Timestamp |-> S("t4"),
        Data |-> L(<<S("a"), S("b")>>)]
T1 == [ID |-> S("a"), Data |-> S("pay 1")]
T2 == [ID |-> S("b"), Data |-> S("pay 2")]

\* a record's field, present with one of the values or absent
Opt(k, values) == {<<>>} \cup {k :> v : v \in values}

\* the fields of a block besides its position: all of them, all of them with
\* "Data": null (a block without transactions, as an encoder of nil lists
\* writes it), or none
BlockRest == [Hash |-> S("h"), PrevHashX |-> S("g"), PrevHashY |-> S("g"),
              Context |-> S("c"), Timestamp |-> S("t"), Data |-> L(<<S("a")>>)]
BlockRests == {BlockRest, [BlockRest EXCEPT !.Data = PyNone], <<>>}

\* raw records with fields missing or malformed
RawBlocks ==
    {x @@ y @@ rest : x \in Opt("X", {I(0), I(1)}), y \in Opt("Y", {I(0)}),
                      rest \in BlockRests}
RawTxs == {i @@ d : i \in Opt("ID", {S(""), S("a")}), d \in Opt("Data", {S("pay 1")})}

\* the chain and the pending transactions when the snapshot is read
Chain == <<B1, B2>>
Pending == <<T1>>

\* what get_blocks / get_transactions can return: the complete current set
BlockSnapshots == {Chain}
TxSnapshots == {Pending}

\* what the upstream source emits after the snapshot, in this order; a
\* subscription yields the updates emitted while it is connected and misses
\* the others
Feed == <<[type |-> "newBlock", data |-> B1u],
          [type |-> "newTransaction", data |-> T2],
          [type |-> "ping", data |-> T1],
          [type |-> "newBlock", data |-> B3]>>

(***************************************************************************)
(* The Ingestion Queue: asyncio.Queue(), unbounded and first-in first-out. *)
(***************************************************************************)
\* asyncio.Queue(): maxsize = 0, no capacity bound
queue_ctor_bounded == [maxsize |-> Len(<<"slot">>)]
queue_ctor == [maxsize |-> 0]

\* Queue.full(): never, when maxsize <= 0
full(q) == IF queue_ctor.maxsize <= 0 THEN FALSE ELSE Len(q) >= queue_ctor.maxsize

\* await queue.put(item) for each item in turn: some put finds the queue
\* full and suspends until the consumer has taken a document
PutSuspends(q, items) == \E n \in 0..(Len(items) - 1) : full(q \o SubSeq(items, 1, n))

QueuePutLifo(q, item) == <<item>> \o q
QueuePutDrops(q, item) == IF q = <<>> THEN <<item>> ELSE q
QueuePut(q, item) == Append(q, item)

QueueFront(q) == Head(q)
QueueRest(q) == Tail(q)

RECURSIVE PutAll(_, _)
PutAll(q, items) ==
    IF items = <<>> THEN q ELSE PutAll(QueuePut(q, Head(items)), Tail(items))

RECURSIVE ProcessAll(_, _)
\* the loops of lines 39-40 and 44-45: the documents put before a record
\* makes its normalizer raise, and whether none did
ProcessAll(records, kind) ==
    IF records = <<>> THEN [ok |-> TRUE, docs |-> <<>>]
    ELSE LET r == IF kind = "block" THEN process_block(Head(records))
                  ELSE process_transaction(Head(records))
         IN IF ~r.ok THEN [ok |-> FALSE, docs |-> <<>>]
            ELSE LET rest == ProcessAll(Tail(records), kind)
                 IN [ok |-> rest.ok, docs |-> <<r.doc>> \o rest.docs]

\* the body of the async for, lines 56-59
OnUpdateStrict(update) ==
    IF update.type = "newBlock"
    THEN LET r == process_block(update.data)
         IN [ok |-> r.ok, docs |-> IF r.ok THEN <<r.doc>> ELSE <<>>]
    ELSE IF update.type = "newTransaction"
    THEN LET r == process_transaction(update.data)
         IN [ok |-> r.ok, docs |-> IF r.ok THEN <<r.doc>> ELSE <<>>]
    ELSE [ok |-> FALSE, docs |-> <<>>]
OnUpdateTxOnly(update) ==
    IF update.type = "newTransaction"
    THEN LET r == process_transaction(update.data)
         IN [ok |-> r.ok, docs |-> IF r.ok THEN <<r.doc>> ELSE <<>>]
    ELSE [ok |-> TRUE, docs |-> <<>>]
OnUpdate(update) ==
    IF update.type = "newBlock"
    THEN LET r == process_block(update.data)
         IN [ok |-> r.ok, docs |-> IF r.ok THEN <<r.doc>> ELSE <<>>]
    ELSE IF update.type = "newTransaction"
    THEN LET r == process_transaction(update.data)
         IN [ok |-> r.ok, docs |-> IF r.ok THEN <<r.doc>> ELSE <<>>]
    ELSE [ok |-> TRUE, docs |-> <<>>]

(***************************************************************************)
(* The Embedding Engine.                                                   *)
(***************************************************************************)
\* self.model.encode(text): some vector of the model's dimension, a function
\* of the text alone, never the zero vector
Encode(text) == [i \in 1..Dim |-> ((Len(text) * i) % 7) + 1]

ZeroVector == [i \in 1..Dim |-> 0]

\* self.model.encode(texts): one row for each text, in order
EncodeBatch(texts) == [i \in 1..Len(texts) |-> Encode(texts[i])]

\* embed_batch, lines 26-34
embed_batch_one_zero(texts, fails) ==
    IF fails THEN <<ZeroVector>> ELSE EncodeBatch(texts)
embed_batch(texts, fails) ==
    IF fails THEN [i \in 1..Len(texts) |-> ZeroVector] ELSE EncodeBatch(texts)

embed_text_raises(text, fails) == IF fails THEN <<>> ELSE Encode(text)
embed_text(text, fails) == IF fails THEN ZeroVector ELSE Encode(text)

(***************************************************************************)
(* The pipeline of build_pipeline: the row made of a queued document, and  *)
(* the vector index keyed by id.                                           *)
(***************************************************************************)
Row(doc, fails) ==
    [id |-> PyStr(doc["_id"]),
     document_type |-> PyStr(doc["_document_type"]),
     text |-> PyStr(doc["_text"]),
     metadata |-> doc,
     embedding |-> embed_text(PyStr(doc["_text"]), fails)]

UpsertAppend(idx, row) == Append(idx, row)
UpsertKeepOld(idx, row) ==
    IF \E i \in DOMAIN idx : idx[i].id = row.id THEN idx ELSE Append(idx, row)
\* index_field = "id": the row replaces the row of the same id
Upsert(idx, row) == Append(SelectSeq(idx, LAMBDA e : e.id # row.id), row)

\* no function has been called directly
NoCall == [fn |-> "none"]

RECURSIVE SumSq(_, _, _)
SumSq(u, v, i) ==
    IF i = 0 THEN 0 ELSE (u[i] - v[i]) * (u[i] - v[i]) + SumSq(u, v, i - 1)

\* the fixed metric of the index: the squared Euclidean distance
Distance(u, v) == SumSq(u, v, Dim)

\* the place of row i among the rows ranked for the query vector v: nearest
\* first, of two rows at the same distance the one upserted later first
RankOf(idx, v, i) ==
    1 + Cardinality({j \in DOMAIN idx :
            \/ Distance(idx[j].embedding, v) < Distance(idx[i].embedding, v)
            \/ /\ Distance(idx[j].embedding, v) = Distance(idx[i].embedding, v)
               /\ j > i})

\* self.index.query(query_embedding, k): the k best rows, each with its score
IndexQuery(idx, v, k) ==
    LET n == IF k < Len(idx) THEN k ELSE Len(idx)
    IN [r \in 1..n |->
           LET i == CHOOSE i \in DOMAIN idx : RankOf(idx, v, i) = r
           IN [id |-> idx[i].id, document_type |-> idx[i].document_type,
               text |-> idx[i].text, metadata |-> idx[i].metadata,
               embedding |-> idx[i].embedding,
               score |-> Distance(idx[i].embedding, v)]]

\* query_handler(query, top_k): embed the query, search, format each result
query_handler_reversed(idx, query, top_k, fails) ==
    LET results == IndexQuery(idx, embed_text(query, fails), top_k)
    IN [i \in DOMAIN results |->
           LET result == results[Len(results) + 1 - i]
           IN [id |-> result.id, document_type |-> result.document_type,
               text |-> result.text, score |-> result.score,
               metadata |-> result.metadata]]
query_handler(idx, query, top_k, fails) ==
    LET results == IndexQuery(idx, embed_text(query, fails), top_k)
    IN [i \in DOMAIN results |->
           [id |-> results[i].id, document_type |-> results[i].document_type,
            text |-> results[i].text, score |-> results[i].score,
            metadata |-> results[i].metadata]]

(***************************************************************************)
(* The API layer: query_blockchain and get_llm_response (api/routes.py).   *)
(* llm is what the request to the LLM service does: "ok" (status 200 and a *)
(* completion), "status" (another status), "raises" (the request raises),  *)
(* "malformed" (status 200 and a body without choices).                    *)
(***************************************************************************)
LlmOutcomes == {"ok", "status", "raises", "malformed"}
LlmAnswer == "two blocks"

\* get_llm_response: the string returned, or raised
get_llm_response_propagates(key, llm) ==
    IF ~key THEN [raised |-> FALSE, value |-> S("LLM integration not configured")]
    ELSE IF llm = "ok" THEN [raised |-> FALSE, value |-> S(LlmAnswer)]
    ELSE IF llm = "status"
    THEN [raised |-> FALSE, value |-> S("Unable to generate AI response")]
    ELSE [raised |-> TRUE, value |-> PyNone]
get_llm_response(key, llm) ==
    IF ~key THEN [raised |-> FALSE, value |-> S("LLM integration not configured")]
    ELSE IF llm = "ok" THEN [raised |-> FALSE, value |-> S(LlmAnswer)]
    ELSE IF llm = "status"
    THEN [raised |-> FALSE, value |-> S("Unable to generate AI response")]
    ELSE IF llm = "raises"
    THEN [raised |-> FALSE,
          value |-> S("Error generating AI response: " \o "Cannot connect to host")]
    ELSE [raised |-> FALSE, value |-> S("Error generating AI response: " \o "'choices'")]

\* what the request to the Pathway service does: "ok" (status 200 and the
\* list query_handler returned), "status" (another status), "raises"
PathwayOutcomes == {"ok", "status", "raises"}

\* query_blockchain, lines 18-50: the response, status 200 with the results
\* and the summary, or the HTTPException of status 500
query_blockchain(pathway, results, key, llm) ==
    IF pathway # "ok" THEN [status |-> 500]
    ELSE LET r == IF key THEN get_llm_response(key, llm)
                  ELSE [raised |-> FALSE, value |-> PyNone]
         IN IF r.raised THEN [status |-> 500]
            ELSE [status |-> 200, results |-> results, llm_response |-> r.value]

(***************************************************************************)
(* Initial state: the objects are constructed and start() has been called  *)
(* and is about to await connector.get_blocks().                           *)
(***************************************************************************)
Init ==
    /\ loadpc = "get_blocks"
    /\ startResult = "running"
    /\ loadLog = "none"
    /\ streampc = "NotCreated"
    /\ timer = 0
    /\ subs = 0
    /\ failures = 0
    /\ yielded = FALSE
    /\ stopEvent = FALSE
    /\ stoppc = "idle"
    /\ connClosed = FALSE
    /\ queue = <<>>
    /\ qtag = <<>>
    /\ index = <<>>
    /\ enqLog = <<>>
    /\ applied = <<>>
    /\ appliedTag = <<>>
    /\ emitted = <<>>
    /\ snapBlocks = <<>>
    /\ feedPos = 0
    /\ encodeBroken = FALSE
    /\ call = NoCall

\* queue.put of each document, with the history of who put it and when
Enqueue(docs, src) ==
    /\ ~PutSuspends(queue, docs)
    /\ queue' = PutAll(queue, docs)
    /\ qtag' = PutAll(qtag, [i \in 1..Len(docs) |-> [src |-> src, n |-> Len(enqLog) + i]])
    /\ enqLog' = enqLog \o [i \in 1..Len(docs) |-> [src |-> src, doc |-> docs[i]]]

(***************************************************************************)
(* start() and _load_initial_state().                                      *)
(***************************************************************************)
\* start(), lines 24-27: the task is created once the load has returned
TaskCreatedEarly(loadReturned) == TRUE
TaskCreatedAfterBlocks(loadReturned) == ~loadReturned
TaskCreated(loadReturned) == loadReturned

\* the except clause of lines 48-49: the error is logged and not raised again
load_except_reraise == [log |-> "error", propagate |-> TRUE]
load_except == [log |-> "error", propagate |-> FALSE]

\* the load has raised at some await or in a normalizer
LoadFailed ==
    /\ loadpc' = "done"
    /\ loadLog' = load_except.log
    /\ startResult' = IF load_except.propagate THEN "raised" ELSE "returned"
    /\ streampc' = IF ~load_except.propagate /\ TaskCreated(TRUE)
                   THEN "Created" ELSE streampc

FetchBlocksOk(bs) ==
    /\ loadpc = "get_blocks"
    /\ ~connClosed
    /\ snapBlocks' = bs
    /\ LET r == ProcessAll(bs, "block")
       IN /\ Enqueue(r.docs, "load")
          /\ IF r.ok
             THEN /\ loadpc' = "get_txs"
                  /\ streampc' = IF TaskCreated(FALSE) THEN "Created" ELSE streampc
                  /\ UNCHANGED <<loadLog, startResult>>
             ELSE LoadFailed
    /\ UNCHANGED <<timer, subs, failures, yielded, stopVars, indexVars, emitted, feedPos, call>>

FetchBlocksFail ==
    /\ loadpc = "get_blocks"
    /\ LoadFailed
    /\ UNCHANGED <<snapBlocks, timer, subs, failures, yielded, stopVars, queueVars,
                   indexVars, emitted, feedPos, call>>

FetchTxsOk(ts) ==
    /\ loadpc = "get_txs"
    /\ ~connClosed
    /\ LET r == ProcessAll(ts, "transaction")
       IN /\ Enqueue(r.docs, "load")
          /\ IF r.ok
             THEN /\ loadpc' = "done"
                  /\ loadLog' = "info"
                  /\ startResult' = "returned"
                  /\ streampc' = IF TaskCreated(TRUE) THEN "Created" ELSE streampc
             ELSE LoadFailed
    /\ UNCHANGED <<snapBlocks, timer, subs, failures, yielded, stopVars, indexVars,
                   emitted, feedPos, call>>

FetchTxsFail ==
    /\ loadpc = "get_txs"
    /\ LoadFailed
    /\ UNCHANGED <<snapBlocks, timer, subs, failures, yielded, stopVars, queueVars,
                   indexVars, emitted, feedPos, call>>

(***************************************************************************)
(* _stream_updates(): the live-subscription loop.                          *)
(***************************************************************************)
\* line 53: the loop goes on unless the stop event is set, however many
\* subscriptions there have been
loop_head_gives_up(stop, attempts) ==
    IF stop \/ attempts >= 1 THEN "Stopped" ELSE "Streaming"
loop_head(stop, attempts) == IF stop THEN "Stopped" ELSE "Streaming"

\* the test of line 53 and, when it passes, the call of stream_updates()
EnterLoop ==
    /\ streampc' = loop_head(stopEvent, subs)
    /\ subs' = IF loop_head(stopEvent, subs) = "Streaming" THEN subs + 1 ELSE subs
    /\ timer' = 0
    /\ yielded' = FALSE

\* the first run of the task that start() created
TaskStart ==
    /\ streampc = "Created"
    /\ EnterLoop
    /\ UNCHANGED <<failures, loadVars, stopVars, queueVars, indexVars, emitted, feedPos, call>>

\* the except clause of lines 60-62: log, then sleep for the delay
sleep_delay == ReconnectDelay

Except ==
    /\ streampc' = "Reconnecting"
    /\ timer' = sleep_delay
    /\ failures' = failures + 1
    /\ yielded' = FALSE

\* the subscription yields the k-th update of the feed
StreamUpdate(k) ==
    /\ streampc = "Streaming"
    /\ ~connClosed
    /\ k > feedPos
    /\ feedPos' = k
    /\ emitted' = Append(emitted, Feed[k])
    /\ LET r == OnUpdate(Feed[k])
       IN /\ Enqueue(r.docs, "live")
          /\ IF r.ok
             THEN /\ yielded' = TRUE
                  /\ UNCHANGED <<streampc, timer, failures>>
             ELSE Except
    /\ UNCHANGED <<subs, loadVars, stopVars, indexVars, call>>

\* the subscription raises (it cannot connect, or the connection drops)
StreamError ==
    /\ streampc = "Streaming"
    /\ subs < MaxSubs \/ stopEvent
    /\ Except
    /\ UNCHANGED <<subs, loadVars, stopVars, queueVars, indexVars, emitted, feedPos, call>>

\* the subscription ends without raising: the async for is left normally
StreamEnd ==
    /\ streampc = "Streaming"
    /\ subs < MaxSubs \/ stopEvent
    /\ EnterLoop
    /\ failures' = 0
    /\ UNCHANGED <<loadVars, stopVars, queueVars, indexVars, emitted, feedPos, call>>

\* time passes while the task is in asyncio.sleep(5): the rest of the delay
Tick ==
    /\ streampc = "Reconnecting"
    /\ timer > 0
    /\ timer' = 0
    /\ UNCHANGED <<streampc, subs, failures, yielded, loadVars, stopVars, queueVars,
                   indexVars, emitted, feedPos, call>>

\* the sleep returns and the loop tests the stop event again
SleepDone ==
    /\ streampc = "Reconnecting"
    /\ timer = 0
    /\ EnterLoop
    /\ UNCHANGED <<failures, loadVars, stopVars, queueVars, indexVars, emitted, feedPos, call>>

(***************************************************************************)
(* stop(): set the event, then await connector.close().                    *)
(***************************************************************************)
StopSet ==
    /\ stoppc = "idle"
    /\ stopEvent' = TRUE
    /\ stoppc' = "closing"
    /\ UNCHANGED <<connClosed, loadVars, streamVars, queueVars, indexVars, emitted,
                   feedPos, call>>

\* connector.close() returns: the connection is released, no fetch returns
\* and no update arrives any more
ConnectorClose ==
    /\ stoppc = "closing"
    /\ connClosed' = TRUE
    /\ stoppc' = "done"
    /\ UNCHANGED <<stopEvent, loadVars, streamVars, queueVars, indexVars, emitted,
                   feedPos, call>>

(***************************************************************************)
(* pathway_connector: queue.get(), context.add_data(item), task_done();    *)
(* the row is embedded and upserted into the index.                        *)
(***************************************************************************)
\* fails: the embedding model raises on this document; once it has raised it
\* raises on every later one
Consume(fails) ==
    /\ queue # <<>>
    /\ encodeBroken => fails
    /\ encodeBroken' = fails
    /\ queue' = QueueRest(queue)
    /\ qtag' = QueueRest(qtag)
    /\ applied' = Append(applied, QueueFront(queue))
    /\ appliedTag' = Append(appliedTag, [src |-> QueueFront(qtag).src,
                                         n |-> QueueFront(qtag).n,
                                         embedFailed |-> fails])
    /\ index' = Upsert(index, Row(QueueFront(queue), fails))
    /\ UNCHANGED <<loadVars, streamVars, stopVars, enqLog, emitted, feedPos, call>>

(***************************************************************************)
(* Direct calls: a caller hands one record to a normalizer of the stream    *)
(* object, at most MaxCalls records one after the other.                    *)
(***************************************************************************)
Normalizers == {"_process_block", "_process_transaction"}

\* the call of a normalizer: the document is put on the queue unless the
\* normalizer raised; after: the caller's record when the call is over
CallNormalizer(fn, record) ==
    /\ call.fn \in {"none"} \cup Normalizers
    /\ Len(enqLog) < MaxCalls
    /\ LET r == IF fn = "_process_block" THEN process_block(record)
                ELSE process_transaction(record)
       IN /\ Enqueue(IF r.ok THEN <<r.doc>> ELSE <<>>, "call")
          /\ call' = [fn |-> fn, arg |-> record, raised |-> ~r.ok, after |-> r.doc]
    /\ UNCHANGED <<loadVars, streamVars, stopVars, indexVars, emitted, feedPos>>

Call_process_block == \E block \in RawBlocks : CallNormalizer("_process_block", block)
Call_process_transaction ==
    \E tx \in RawTxs : CallNormalizer("_process_transaction", tx)

\* the texts handed to the embedding engine, and the batches of them
Texts == {"a", "bb", "ccc"}
Batches == UNION {[1..n -> Texts] : n \in 0..MaxBatch}

\* embed_batch(texts); fails: self.model.encode raises
Call_embed_batch ==
    /\ call.fn = "none"
    /\ \E texts \in Batches, fails \in BOOLEAN :
          call' = [fn |-> "embed_batch", arg |-> texts, fails |-> fails,
                   ret |-> embed_batch(texts, fails)]
    /\ UNCHANGED <<loadVars, streamVars, stopVars, queueVars, indexVars, emitted, feedPos>>

\* the documents a caller hands to the pipeline: the normalized records of
\* the upstream source
Documents ==
    {process_block(b).doc : b \in {B1, B2, B3, B1u}}
        \cup {process_transaction(t).doc : t \in {T1}}

\* context.add_data(item) while the index has fewer than MaxRows rows: the
\* row is embedded and upserted
Call_add_data ==
    /\ call.fn \in {"none", "add_data"}
    /\ Len(index) < MaxRows
    /\ \E doc \in Documents, fails \in BOOLEAN :
          /\ index' = Upsert(index, Row(doc, fails))
          /\ call' = [fn |-> "add_data"]
    /\ UNCHANGED <<loadVars, streamVars, stopVars, queueVars, applied, appliedTag,
                   encodeBroken, emitted, feedPos>>

\* query_handler(query, top_k) on the index as it is; fails: the model raises
\* on the query text
Call_query_handler ==
    /\ call.fn \in {"none", "add_data"}
    /\ \E query \in Texts, top_k \in 0..MaxK, fails \in BOOLEAN :
          call' = [fn |-> "query_handler", arg |-> [query |-> query, top_k |-> top_k],
                   fails |-> fails, ret |-> query_handler(index, query, top_k, fails)]
    /\ UNCHANGED <<loadVars, streamVars, stopVars, queueVars, indexVars, emitted, feedPos>>

\* POST /query with a query text and the default top_k; the Pathway service
\* answers with query_handler's list for the index as it is; key: LLM_API_KEY
\* is set
Call_query_blockchain ==
    /\ call.fn \in {"none", "add_data"}
    /\ \E query \in Texts, pathway \in PathwayOutcomes, key \in BOOLEAN,
          llm \in LlmOutcomes :
          LET results == query_handler(index, query, DefaultTopK, encodeBroken)
          IN call' = [fn |-> "query_blockchain",
                      arg |-> [query |-> query, top_k |-> DefaultTopK],
                      pathway |-> pathway, key |-> key, llm |-> llm,
                      results |-> results,
                      ret |-> query_blockchain(pathway, results, key, llm)]
    /\ UNCHANGED <<loadVars, streamVars, stopVars, queueVars, indexVars, emitted, feedPos>>

Next ==
    \/ \E bs \in BlockSnapshots : FetchBlocksOk(bs)
    \/ FetchBlocksFail
    \/ \E ts \in TxSnapshots : FetchTxsOk(ts)
    \/ FetchTxsFail
    \/ TaskStart
    \/ \E k \in DOMAIN Feed : StreamUpdate(k)
    \/ StreamError
    \/ StreamEnd
    \/ Tick
    \/ SleepDone
    \/ StopSet
    \/ ConnectorClose
    \/ \E fails \in BOOLEAN : Consume(fails)

Spec == Init /\ [][Next]_vars

\* The event loop runs every ready coroutine, a fetch returns or raises, the
\* sleep ends, and the consumer task is scheduled.
FairSpec ==
    /\ Spec
    /\ WF_vars((\E bs \in BlockSnapshots : FetchBlocksOk(bs)) \/ FetchBlocksFail)
    /\ WF_vars((\E ts \in TxSnapshots : FetchTxsOk(ts)) \/ FetchTxsFail)
    /\ WF_vars(TaskStart)
    /\ WF_vars(Tick)
    /\ WF_vars(SleepDone)
    /\ WF_vars(ConnectorClose)
    /\ WF_vars(\E fails \in BOOLEAN : Consume(fails))

FnNext ==
    \/ Call_process_block
    \/ Call_process_transaction
    \/ Call_embed_batch
    \/ Call_add_data
    \/ Call_query_handler
    \/ Call_query_blockchain

\* the program's functions called directly, one input at a time
FnSpec == Init /\ [][FnNext]_vars

(***************************************************************************)
(* Properties.                                                             *)
(***************************************************************************)
\* the id the pipeline keys a queued document by
DocId(doc) == PyStr(doc["_id"])

\* the positions of applied at which a document of this id was handed over
AppliedAt(id) == {k \in DOMAIN applied : DocId(applied[k]) = id}

Last(set) == CHOOSE k \in set : \A j \in set : j <= k

\* C1: idempotent upsert. After any sequence of upserts the index holds at
\* most one row for an id, exactly one for every id that was upserted, and
\* that row carries the content of the most recent upsert with the id.
C1_IdempotentUpsert ==
    /\ \A i, j \in DOMAIN index : index[i].id = index[j].id => i = j
    /\ \A k \in DOMAIN applied : \E i \in DOMAIN index : index[i].id = DocId(applied[k])
    /\ \A i \in DOMAIN index :
          /\ AppliedAt(index[i].id) # {}
          /\ LET d == applied[Last(AppliedAt(index[i].id))]
             IN /\ index[i].metadata = d
                /\ index[i].text = PyStr(d["_text"])
                /\ index[i].document_type = PyStr(d["_document_type"])

\* an id was upserted twice, with different content
C1_Witness ==
    \E i, j \in DOMAIN applied :
        /\ i < j
        /\ DocId(applied[i]) = DocId(applied[j])
        /\ PyStr(applied[i]["_text"]) # PyStr(applied[j]["_text"])

\* C2: order-preserving per source. Of two documents one source enqueued,
\* the one enqueued first is applied first, and a document still queued was
\* enqueued after every applied document of its source.
C2_OrderPerSource ==
    /\ \A i, j \in DOMAIN appliedTag :
          (i < j /\ appliedTag[i].src = appliedTag[j].src)
              => appliedTag[i].n < appliedTag[j].n
    /\ \A i \in DOMAIN appliedTag : \A j \in DOMAIN qtag :
          appliedTag[i].src = qtag[j].src => appliedTag[i].n < qtag[j].n

\* two documents of the load and two of the live stream were applied, and
\* one more of the live stream waits
C2_Witness ==
    /\ Cardinality({i \in DOMAIN appliedTag : appliedTag[i].src = "load"}) >= 2
    /\ Cardinality({i \in DOMAIN appliedTag : appliedTag[i].src = "live"}) >= 2
    /\ \E j \in DOMAIN qtag : qtag[j].src = "live"

DocsOf(log) == [i \in DOMAIN log |-> log[i].doc]

\* the documents the live loop has enqueued, and the updates it had to forward
LiveDocs == SelectSeq(enqLog, LAMBDA e : e.src = "live")
Forwardable == SelectSeq(emitted, LAMBDA u : u.type \in {"newBlock", "newTransaction"})

\* every update of the two kinds has its document on the queue's history, in
\* order: the fields of the update's record, and the kind
C3_Forwarded ==
    /\ Len(LiveDocs) = Len(Forwardable)
    /\ \A i \in DOMAIN LiveDocs :
          /\ \A f \in DOMAIN Forwardable[i].data :
                LiveDocs[i].doc[f] = Forwardable[i].data[f]
          /\ LiveDocs[i].doc["_document_type"] =
                S(IF Forwardable[i].type = "newBlock" THEN "block" ELSE "transaction")

\* C3: reconnect liveness with no retry limit. Without a stop request the
\* task never ends, after a failed subscription it is streaming again, and
\* every update of a subscription is normalized and enqueued.
C3_ReconnectLiveness ==
    /\ [](~stopEvent => streampc # "Stopped")
    /\ []C3_Forwarded
    /\ (streampc = "Reconnecting" /\ ~stopEvent) ~> (streampc = "Streaming" \/ stopEvent)

\* two subscriptions in a row raised and the third has yielded an update,
\* which was forwarded
C3_Witness ==
    /\ failures >= 2
    /\ yielded
    /\ emitted # <<>>
    /\ emitted[Len(emitted)].type \in {"newBlock", "newTransaction"}
    /\ LiveDocs # <<>>
    /\ LiveDocs[Len(LiveDocs)].doc = DocsOf(enqLog)[Len(enqLog)]
    /\ ~stopEvent
    /\ streampc = "Streaming"

\* C4: after a stop request the loop halts: no further document is enqueued,
\* the task reaches Stopped and stays there.
C4_StopHalts ==
    /\ [][stopEvent => enqLog' = enqLog]_vars
    /\ [][streampc = "Stopped" => streampc' = "Stopped"]_vars
    /\ stopEvent ~> (streampc = "Stopped")

\* C5: every re-attempt of the subscription follows the fixed delay: the loop
\* subscribes again only out of the sleep, when the delay has passed.
C5_DelayBeforeResubscribe ==
    [][subs' > subs =>
          \/ streampc = "Created"
          \/ streampc = "Reconnecting" /\ timer = 0]_vars

\* nothing lost, nothing duplicated, nothing made up: the documents handed to
\* the index followed by those queued are the documents enqueued, in order
C6_Conserved == applied \o queue = DocsOf(enqLog)

\* the most documents a run can enqueue
AllDocs == Len(Chain) + Len(Pending) + Len(Feed)

\* C6: no loss and no duplication. The documents handed to the index are a
\* prefix of those enqueued, the rest are queued, and with a consumer that
\* runs the n-th document enqueued is handed over.
C6_NoLossNoDuplication ==
    /\ []C6_Conserved
    /\ \A n \in 1..AllDocs : (Len(enqLog) >= n) ~> (Len(applied) >= n)

\* documents of both sources were enqueued and all of them handed over
C6_Witness ==
    /\ queue = <<>>
    /\ Len(applied) >= 4
    /\ \E i \in DOMAIN enqLog : enqLog[i].src = "live"

RowsOf(id) == {i \in DOMAIN index : index[i].id = id}

\* C7: duplicate across load and live stream. The load returned [B1, B2],
\* the subscription emitted B1's position again, the queue is drained: the
\* index has one row for B1's id, with the update's content, and one for B2.
C7_DuplicateAcrossLoadAndLive ==
    (snapBlocks = <<B1, B2>> /\ emitted = <<Feed[1]>> /\ queue = <<>>) =>
        /\ Cardinality(RowsOf("block_1_0")) = 1
        /\ Cardinality(RowsOf("block_1_1")) = 1
        /\ \A i \in RowsOf("block_1_0") :
              /\ index[i].metadata["Hash"] = S("h1u")
              /\ index[i].metadata["Timestamp"] = S("t4")
              /\ index[i].text = block_text(B1u)

C7_Witness ==
    /\ snapBlocks = <<B1, B2>>
    /\ emitted = <<Feed[1]>>
    /\ Feed[1].type = "newBlock"
    /\ queue = <<>>
    /\ Len(applied) >= 3

LoadDocs == SelectSeq(enqLog, LAMBDA e : e.src = "load")

\* C8: loading precedes streaming. The task of the live loop exists only
\* when the load has returned, having logged its result; a load that logged
\* success has enqueued every block of the snapshot.
C8_LoadingPrecedesStreaming ==
    /\ loadpc # "done" => (streampc = "NotCreated" /\ subs = 0 /\ emitted = <<>>)
    /\ streampc # "NotCreated" =>
          /\ loadpc = "done"
          /\ loadLog \in {"info", "error"}
    /\ loadLog = "info" =>
          Len(SelectSeq(LoadDocs, LAMBDA e : e.doc["_document_type"] = S("block")))
              = Len(snapBlocks)

C8_Witness ==
    /\ streampc = "Streaming"
    /\ loadLog = "info"
    /\ Len(snapBlocks) = 2
    /\ Len(LoadDocs) = 3

\* C9: embedding degradation, not failure. Every row has a vector of the
\* model's dimension; a document on which the model raised is in the index,
\* with every component 0; the consumer goes on while documents wait.
C9_EmbeddingDegrades ==
    /\ \A i \in DOMAIN index : DOMAIN index[i].embedding = 1..Dim
    /\ \A k \in DOMAIN applied :
          /\ RowsOf(DocId(applied[k])) # {}
          /\ (appliedTag[k].embedFailed /\ k = Last(AppliedAt(DocId(applied[k])))) =>
                \A i \in RowsOf(DocId(applied[k])) :
                    \A c \in 1..Dim : index[i].embedding[c] = 0
    /\ queue # <<>> => ENABLED (\E fails \in BOOLEAN : Consume(fails))

\* the model raised on two documents one after the other; both are indexed
C9_Witness ==
    \E k \in DOMAIN applied :
        /\ k > 1
        /\ appliedTag[k].embedFailed
        /\ appliedTag[k - 1].embedFailed
        /\ DocId(applied[k]) # DocId(applied[k - 1])
        /\ Len(index) >= 2

IsPrefix(p, q) == Len(p) <= Len(q) /\ SubSeq(q, 1, Len(p)) = p

\* C10: a failure of the snapshot load is contained. start() does not raise;
\* the step that fails takes nothing off the queue and creates the task of
\* the live loop; unless stopped, the loop then subscribes.
C10_LoadFailureContained ==
    /\ [](startResult # "raised")
    /\ [][(loadLog = "none" /\ loadLog' = "error") =>
             /\ IsPrefix(queue, queue')
             /\ IsPrefix(enqLog, enqLog')
             /\ startResult' = "returned"
             /\ streampc' = "Created"]_vars
    /\ (loadLog = "error" /\ ~stopEvent) ~> (streampc = "Streaming" \/ stopEvent)

\* get_transactions failed after the two blocks were enqueued; they were
\* handed over and the loop subscribed
C10_Witness ==
    /\ loadLog = "error"
    /\ Len(snapBlocks) = 2
    /\ Len(LoadDocs) = 2
    /\ streampc = "Streaming"
    /\ Len(applied) >= 2

\* the normalizer the call ran, applied once more to the caller's record
Renormalized ==
    IF call.fn = "_process_block" THEN process_block(call.after)
    ELSE process_transaction(call.after)

\* C11: the normalizer is total and deterministic. Whatever fields of the
\* record are missing or malformed, the call does not raise, the document
\* with its id, kind and text is the last one put on the queue, and
\* normalizing the record again gives the same id, kind and text.
C11_NormalizerTotal ==
    call.fn \in Normalizers =>
        /\ ~call.raised
        /\ {"_id", "_document_type", "_text"} \subseteq DOMAIN call.after
        /\ queue # <<>>
        /\ queue[Len(queue)] = call.after
        /\ Renormalized.ok
        /\ \A f \in {"_id", "_document_type", "_text"} :
              Renormalized.doc[f] = call.after[f]

\* what identifies the source record of a queued document: its kind and its
\* position (a block) or its ID (a transaction), a missing field being none
\* of the field's values
IdentityField(doc, k) == IF k \in DOMAIN doc THEN k \o "=" \o PyRepr(doc[k]) ELSE "no " \o k
SourceIdentity(doc) ==
    IF doc["_document_type"] = S("block")
    THEN "block " \o IdentityField(doc, "X") \o " " \o IdentityField(doc, "Y")
    ELSE "transaction " \o IdentityField(doc, "ID")

\* C12: document ids are unique per source identity. Two queued documents
\* of records that differ in kind, in a position field or in the ID (a
\* missing field differs from every present one) have different ids.
C12_UniqueIds ==
    \A i, j \in DOMAIN enqLog :
        SourceIdentity(enqLog[i].doc) # SourceIdentity(enqLog[j].doc)
            => DocId(enqLog[i].doc) # DocId(enqLog[j].doc)

\* the kinds of the rows of the index, and the ids of a list of rows
RowsOfKind(kind) == {i \in DOMAIN index : index[i].document_type = kind}
Ids(rows) == {rows[i].id : i \in DOMAIN rows}

\* the snapshot was 2 blocks and 1 pending transaction, the subscriptions
\* have yielded one update, a newBlock at a position not in the snapshot,
\* and the queue is drained
C13_Scenario ==
    /\ Len(snapBlocks) = 2
    /\ loadLog = "info"
    /\ Len(LoadDocs) = 3
    /\ Len(emitted) = 1
    /\ emitted[1].type = "newBlock"
    /\ \A i \in DOMAIN snapBlocks : block_id(snapBlocks[i]) # block_id(emitted[1].data)
    /\ queue = <<>>

\* C13: end-to-end scenario. In that state the index holds exactly 4 rows,
\* 3 of kind block and 1 of kind transaction, and a query with k = 10
\* returns exactly those 4, whether or not the model embeds the query.
C13_EndToEnd ==
    C13_Scenario =>
        /\ Len(index) = 4
        /\ Cardinality(RowsOfKind("block")) = 3
        /\ Cardinality(RowsOfKind("transaction")) = 1
        /\ \A fails \in BOOLEAN :
              LET res == query_handler(index, "", 10, fails)
              IN /\ Len(res) = 4
                 /\ Ids(res) = Ids(index)
                 /\ \A i \in DOMAIN res : \E j \in DOMAIN index :
                       /\ res[i].id = index[j].id
                       /\ res[i].text = index[j].text
                       /\ res[i].document_type = index[j].document_type

C13_Witness ==
    /\ C13_Scenario
    /\ Len(applied) = 4
    /\ Len(query_handler(index, "", 10, FALSE)) = 4

\* C14: the producer never blocks on the queue. Whatever the number of
\* documents waiting and however far the consumer is behind, a fetch that
\* returns and an update that arrives are processed and their documents
\* put: no put waits for room.
C14_ProducerNeverBlocks ==
    /\ (loadpc = "get_blocks" /\ ~connClosed) =>
          ENABLED (\E bs \in BlockSnapshots : FetchBlocksOk(bs))
    /\ (loadpc = "get_txs" /\ ~connClosed) =>
          ENABLED (\E ts \in TxSnapshots : FetchTxsOk(ts))
    /\ (streampc = "Streaming" /\ ~connClosed) =>
          \A k \in DOMAIN Feed : k > feedPos => ENABLED StreamUpdate(k)
    /\ ~full(queue)

\* the consumer has taken nothing and every document of the load and of the
\* feed is waiting, the last one put by the live loop
C14_Witness ==
    /\ applied = <<>>
    /\ Len(queue) = Len(LoadDocs) + Len(LiveDocs)
    /\ Len(LoadDocs) = Len(Chain) + Len(Pending)
    /\ Len(LiveDocs) = Len(Forwardable)
    /\ Len(emitted) = Len(Feed)
    /\ qtag[Len(qtag)].src = "live"

\* C15: embed_batch returns one vector for each input text, in the order of
\* the texts, each of dimension Dim: the vector embed_text gives for the text
\* when the model works, the zero vector for every text when it raises.
C15_BatchOnePerText ==
    call.fn = "embed_batch" =>
        /\ Len(call.ret) = Len(call.arg)
        /\ \A i \in DOMAIN call.ret :
              /\ DOMAIN call.ret[i] = 1..Dim
              /\ call.ret[i] = embed_text(call.arg[i], call.fails)
              /\ call.fails => \A c \in 1..Dim : call.ret[i][c] = 0

\* the model raised on a batch of the greatest length, of texts not all equal
C15_Witness ==
    /\ call.fn = "embed_batch"
    /\ call.fails
    /\ Len(call.arg) = MaxBatch
    /\ \E i, j \in DOMAIN call.arg : call.arg[i] # call.arg[j]
    /\ Len(call.ret) = MaxBatch

\* the vector of the query of the call, and the distance of the row of an id
QueryVector == embed_text(call.arg.query, call.fails)
DistanceOf(id) == Distance(index[CHOOSE j \in DOMAIN index : index[j].id = id].embedding,
                           QueryVector)

\* C16: ranking stability. A query returns min(k, number of rows) results,
\* each a different row of the index with its distance as score, nearest
\* first, no row left out being nearer than a returned one; and a query with
\* the same vector and the same k returns the same list.
C16_RankingStability ==
    call.fn = "query_handler" =>
        LET res == call.ret
            k == call.arg.top_k
        IN /\ Len(res) <= k
           /\ Len(res) = (IF k < Len(index) THEN k ELSE Len(index))
           /\ \A i \in DOMAIN res :
                 /\ \E j \in DOMAIN index : index[j].id = res[i].id
                 /\ res[i].score = DistanceOf(res[i].id)
           /\ \A i, j \in DOMAIN res : i < j =>
                 /\ res[i].id # res[j].id
                 /\ res[i].score <= res[j].score
           /\ \A j \in DOMAIN index :
                 index[j].id \notin Ids(res) =>
                     \A i \in DOMAIN res : res[i].score <= DistanceOf(index[j].id)
           /\ \A query \in Texts, fails \in BOOLEAN :
                 embed_text(query, fails) = QueryVector =>
                     query_handler(index, query, k, fails) = res

\* the index has more rows than the query asks for, and the two results are
\* at different distances
C16_Witness ==
    /\ call.fn = "query_handler"
    /\ Len(index) = 3
    /\ call.arg.top_k = 2
    /\ Len(call.ret) = 2
    /\ call.ret[1].score < call.ret[2].score

\* the raw records the upstream source has handed over so far
Received ==
    {snapBlocks[i] : i \in DOMAIN snapBlocks}
        \cup (IF loadLog = "info" THEN {Pending[i] : i \in DOMAIN Pending} ELSE {})
        \cup {emitted[i].data : i \in DOMAIN emitted}

\* C17: metadata is the source record, verbatim. The record a normalizer was
\* given is, when it waits on the queue, still the record as received, and
\* the metadata of every row of the index is a record as received: the same
\* fields, the same values.
C17_MetadataVerbatim ==
    /\ \A i \in DOMAIN queue : queue[i] \in Received
    /\ \A i \in DOMAIN index : index[i].metadata \in Received

\* the strings that stand for a summary that could not be made
IsPlaceholder(x) ==
    /\ x.t = "str"
    /\ \/ x.v = "Unable to generate AI response"
       \/ /\ Len(x.v) >= Len("Error generating AI response: ")
          /\ SubSeq(x.v, 1, Len("Error generating AI response: "))
                = "Error generating AI response: "

\* C18: a failure of the LLM service never fails the query. When the query
\* of the index succeeded the endpoint answers with status 200 and the
\* ranked results, whatever the LLM request does; when it does anything but
\* succeed the summary is a placeholder string, when it succeeds the answer.
C18_LlmFailureContained ==
    (call.fn = "query_blockchain" /\ call.pathway = "ok") =>
        /\ call.ret.status = 200
        /\ call.ret.results = call.results
        /\ (call.key /\ call.llm # "ok") => IsPlaceholder(call.ret.llm_response)
        /\ (call.key /\ call.llm = "ok") => call.ret.llm_response = S(LlmAnswer)

\* the index answered with several results and the LLM request raised
C18_Witness ==
    /\ call.fn = "query_blockchain"
    /\ call.pathway = "ok"
    /\ Len(call.results) >= 2
    /\ call.key
    /\ call.llm = "raises"
    /\ call.ret.status = 200

\* C19: the load and the live loop do not interleave their enqueues. Every
\* document of the load was enqueued before every document of the live
\* loop, and within the load every block before every transaction.
C19_LoadBeforeLive ==
    \A i, j \in DOMAIN enqLog :
        i < j =>
            /\ ~(enqLog[i].src = "live" /\ enqLog[j].src = "load")
            /\ (enqLog[i].src = "load" /\ enqLog[j].src = "load") =>
                  ~(/\ enqLog[i].doc["_document_type"] = S("transaction")
                    /\ enqLog[j].doc["_document_type"] = S("block"))

\* the load enqueued its blocks and its transaction, the live loop a block
\* and a transaction
C19_Witness ==
    /\ Len(LoadDocs) = Len(Chain) + Len(Pending)
    /\ \E i \in DOMAIN LiveDocs : LiveDocs[i].doc["_document_type"] = S("block")
    /\ \E i \in DOMAIN LiveDocs : LiveDocs[i].doc["_document_type"] = S("transaction")

\* C20: the dispatch on the type of an update. An update of type newBlock or
\* newTransaction enqueues exactly one document, of the update's record; an
\* update of another type leaves the queue as it is, and the task stays in
\* Streaming on the same subscription.
C20_EventDispatch ==
    [][emitted' # emitted =>
          LET update == emitted'[Len(emitted')]
          IN IF update.type \in {"newBlock", "newTransaction"}
             THEN /\ Len(enqLog') = Len(enqLog) + 1
                  /\ Len(queue') = Len(queue) + 1
                  /\ SubSeq(queue', 1, Len(queue)) = queue
                  /\ \A f \in DOMAIN update.data :
                        queue'[Len(queue')][f] = update.data[f]
                  /\ queue'[Len(queue')]["_document_type"] =
                        S(IF update.type = "newBlock" THEN "block" ELSE "transaction")
             ELSE /\ enqLog' = enqLog
                  /\ queue' = queue
                  /\ streampc = "Streaming"
                  /\ streampc' = "Streaming"
                  /\ subs' = subs
                  /\ timer' = timer
                  /\ failures' = failures]_vars

\* the subscription has yielded an update of another type after one it
\* forwarded, and is still streaming
C20_Witness ==
    /\ Len(emitted) >= 2
    /\ emitted[Len(emitted)].type \notin {"newBlock", "newTransaction"}
    /\ emitted[Len(emitted) - 1].type \in {"newBlock", "newTransaction"}
    /\ LiveDocs # <<>>
    /\ yielded
    /\ streampc = "Streaming"

====
